---- MODULE Spec2Model ----
(***************************************************************************)
(* Model of the tile stitching pipelines of kiesman99/stitch:              *)
(*   - the HTTP pipeline: Server.CreateStitchedImage -> Stitcher.Stitch    *)
(*     -> Server.handleStitchingError   (internal/server, stitcher)        *)
(*   - the CLI pipeline:  Stitcher.stitch (internal/stitch)                *)
(*   - the pixel compositing function alphaBlend / AlphaBlend              *)
(*                                                                         *)
(* uint32 values are kept at their width.  TLC integers are 32-bit signed, *)
(* so a uint32 is represented as a pair <<hi, lo>> of 16-bit limbs and all *)
(* uint32 arithmetic is done on limbs, modulo 2^32.                        *)
(***************************************************************************)
EXTENDS Integers, Sequences, FiniteSets, TLC

VARIABLES
    pipeline,        \* "http" | "cli" | "blend": which entry point this run exercises
    build,           \* what this build's uint32(float64) yields for a NaN
    req,             \* the api.StitchRequest the HTTP handler received, if any
    cv,              \* copyTileToBuffer run: canvas, the two tiles, the canvases after
    opts,            \* the Options / StitchOptions the run was called with
    net,             \* the responses the tile servers can give in this run
    ctx,             \* request context: "live" | "Canceled" | "DeadlineExceeded"
    pc,              \* position of the run in the code
    plan,            \* x1..y2, tx1..ty2, xa, ya, width, height once computed
    bufAllocated,    \* TRUE once make([]byte, width*height*4) has run
    ty, tx, k,       \* loop variables: tile row, tile column, URL template index
    failedTiles,     \* Stitch: []FailedTile
    successfulTiles, \* Stitch: successfulTiles
    totalTiles,      \* Stitch: totalTiles (uint32 limbs, converted by int())
    ret,             \* what Stitch / stitch returned
    http,            \* what the HTTP handler wrote
    written,         \* CLI: the files written ("png", "worldfile")
    attempts,        \* history: every fetch started, with its outcome
    placed,          \* history: every tile composited into the canvas
    cancelAt,        \* history: pc at which the context was cancelled
    loopDone,        \* history: TRUE once the tile loops have run to their end
    px               \* alphaBlend run: source, destination, result

vars == <<pipeline, build, req, cv, opts, net, ctx, pc, plan, bufAllocated, ty, tx, k,
          failedTiles, successfulTiles, totalTiles, ret, http, written,
          attempts, placed, cancelAt, loopDone, px>>

-----------------------------------------------------------------------------
(* Bounds of the model *)

MaxTemplates == 2

\* the compositing runs: side of a tile, width and height of the canvas, pixels
TileSide == 2
CanvasWidth == 3
CanvasHeight == 2

-----------------------------------------------------------------------------
(* uint32 arithmetic on 16-bit limbs *)

RECURSIVE Pow2(_)
Pow2(n) == IF n <= 0 THEN 1 ELSE 2 * Pow2(n - 1)

B16 == Pow2(16)

Zero32 == <<0, 0>>
One32 == <<0, 1>>

\* uint32(n) for 0 <= n < 2^31
U32FromInt(n) == <<n \div B16, n % B16>>

\* int(u) for a uint32 below 2^31
ToInt(u) == u[1] * B16 + u[2]

Add32(a, b) ==
    LET lo == a[2] + b[2]
    IN  <<(a[1] + b[1] + (lo \div B16)) % B16, lo % B16>>

Sub32(a, b) ==
    LET lo == a[2] - b[2]
        borrow == IF lo < 0 THEN 1 ELSE 0
    IN  <<(a[1] - b[1] - borrow + 2 * B16) % B16, (lo + B16) % B16>>

\* a >> n; Go yields 0 for a shift count >= 32
Shr32(a, n) ==
    IF n >= 32 THEN Zero32
    ELSE IF n >= 16 THEN <<0, a[1] \div Pow2(n - 16)>>
    ELSE <<a[1] \div Pow2(n),
           (a[2] \div Pow2(n)) + (a[1] % Pow2(n)) * Pow2(16 - n)>>

\* a << n, truncated to 32 bits
Shl32(a, n) ==
    IF n >= 32 THEN Zero32
    ELSE IF n >= 16 THEN <<(a[2] * Pow2(n - 16)) % B16, 0>>
    ELSE <<(((a[1] * Pow2(n)) % B16) + ((a[2] * Pow2(n)) \div B16)) % B16,
           (a[2] * Pow2(n)) % B16>>

\* a * m truncated to 32 bits, for 0 <= m < 2^15
MulSmall32(a, m) ==
    <<(((a[1] * m) % B16) + ((a[2] * m) \div B16)) % B16, (a[2] * m) % B16>>

\* a * m truncated to 32 bits, for 0 <= m < 2^16
Mul16(a, m) ==
    Add32(MulSmall32(a, m % 256), Shl32(MulSmall32(a, m \div 256), 8))

\* a * b truncated to 32 bits
Mul32(a, b) == Add32(Mul16(a, b[2]), Shl32(Mul16(a, b[1]), 16))

Leq32(a, b) == a[1] < b[1] \/ (a[1] = b[1] /\ a[2] <= b[2])

\* int(u) / 2 for any uint32 (always below 2^31)
Half32(u) == u[1] * (B16 \div 2) + (u[2] \div 2)

-----------------------------------------------------------------------------
(* Program constants *)

FormatPNG == 0
FormatGeoTIFF == 1
ModeBBox == 0
ModeCentered == 1
MaxDim == 100000000
StatusOK == 200

-----------------------------------------------------------------------------
(* Coordinate mapper *)

\* Latitudes and longitudes are written in micro-degrees.  latlon2tile is
\* evaluated in float64 exactly as the code writes it,
\*   x = uint32(2^32 * ((lon + 180) / 360))
\*   y = uint32(2^32 * (1 - ln(tan(lat) + 1/cos(lat)) / pi) / 2),
\* for the coordinates the requests of the model use.
latlon2tileX(lon) ==
    CASE lon = -180000000 -> <<0, 0>>
      [] lon = -170000000 -> <<1820, 29127>>
      [] lon = -122500000 -> <<10467, 36408>>
      [] lon = -122419400 -> <<10482, 14964>>
      [] lon = -122400000 -> <<10485, 49807>>
      [] lon = -122300000 -> <<10503, 63205>>
      [] lon = -121200000 -> <<10704, 13981>>
      [] lon = -10000000 -> <<30947, 36408>>
      [] lon = 0 -> <<32768, 0>>
      [] lon = 10000000 -> <<34588, 29127>>
      [] lon = 20000000 -> <<36408, 58254>>
      [] lon = 170000000 -> <<63715, 36408>>

\* uint32(f) of a float64 NaN: the language leaves the value of a conversion
\* that does not fit to the implementation; builds that convert through a
\* 64-bit integer yield 0, builds whose conversion saturates on NaN yield 2^32-1
Builds == {"nan is zero", "nan is max"}

Uint32OfNaN == IF build = "nan is zero" THEN Zero32 ELSE <<B16 - 1, B16 - 1>>

\* math.Log of a negative number is NaN, so a latitude beyond the pole (here
\* 100 degrees) makes y a NaN before the conversion
latlon2tileY(lat) ==
    CASE lat = 0 -> <<32768, 0>>
      [] lat = 100000000 -> Uint32OfNaN
      [] lat = 10000000 -> <<30938, 15874>>
      [] lat = 20000000 -> <<29050, 54877>>
      [] lat = 37600000 -> <<25371, 17712>>
      [] lat = 37700000 -> <<25348, 18205>>
      [] lat = 37774900 -> <<25331, 2366>>
      [] lat = 37800000 -> <<25325, 16664>>
      [] lat = -80000000 -> <<58178, 63445>>
      [] lat = 80000000 -> <<7357, 2090>>

latlon2tile(lat, lon) == <<latlon2tileX(lon), latlon2tileY(lat)>>

\* uint32((size << (32 - (zoom + 8))) / 2): the shift and the halving are done
\* in 64-bit int, the conversion truncates to 32 bits
HalfExtent(size, zoom) ==
    LET s == 32 - (zoom + 8)
    IN  IF s >= 1 THEN Shl32(U32FromInt(size), s - 1)
        ELSE U32FromInt(size \div 2)

\* the fixed-point corners x1, y1 (north-west) and x2, y2 (south-east)
Corners(o) ==
    IF o.Mode = ModeCentered
    THEN LET c == latlon2tile(o.CenterLat, o.CenterLon)
             hx == HalfExtent(o.Width, o.Zoom)
             hy == HalfExtent(o.Height, o.Zoom)
         IN  [x1 |-> Sub32(c[1], hx), y1 |-> Sub32(c[2], hy),
              x2 |-> Add32(c[1], hx), y2 |-> Add32(c[2], hy)]
    ELSE LET nw == latlon2tile(o.MaxLat, o.MinLon)
             se == latlon2tile(o.MinLat, o.MaxLon)
         IN  [x1 |-> nw[1], y1 |-> nw[2], x2 |-> se[1], y2 |-> se[2]]

\* the sub-tile offset without the mask & 0xFF
SubTileOffsetUnmasked(v, s, tileSize) ==
    ToInt(Shr32(MulSmall32(Shr32(v, s), tileSize), 8))

\* int(((v >> s) & 0xFF) * uint32(tileSize) / 256)
SubTileOffset(v, s, tileSize) ==
    ToInt(Shr32(MulSmall32(<<0, Shr32(v, s)[2] % 256>>, tileSize), 8))

\* int(((v2 >> s) - (v1 >> s)) * uint32(tileSize) / 256)
CanvasExtent(v1, v2, s, tileSize) ==
    ToInt(Shr32(MulSmall32(Sub32(Shr32(v2, s), Shr32(v1, s)), tileSize), 8))

\* tile indices, sub-tile offsets, canvas size
GridPlan(c, zoom, tileSize) ==
    LET s == 32 - (zoom + 8)
    IN  [x1 |-> c.x1, y1 |-> c.y1, x2 |-> c.x2, y2 |-> c.y2,
         tx1 |-> ToInt(Shr32(c.x1, 32 - zoom)),
         ty1 |-> ToInt(Shr32(c.y1, 32 - zoom)),
         tx2 |-> ToInt(Shr32(c.x2, 32 - zoom)),
         ty2 |-> ToInt(Shr32(c.y2, 32 - zoom)),
         xa |-> SubTileOffset(c.x1, s, tileSize),
         ya |-> SubTileOffset(c.y1, s, tileSize),
         width |-> CanvasExtent(c.x1, c.x2, s, tileSize),
         height |-> CanvasExtent(c.y1, c.y2, s, tileSize)]

NoPlan == GridPlan([x1 |-> Zero32, y1 |-> Zero32, x2 |-> Zero32, y2 |-> Zero32], 0, 0)

\* the size check written with >= in place of >
StitchTooLargeOrEqual(width, height) ==
    width > 0 /\ height >= (MaxDim + width - 1) \div width

\* int64(width) * int64(height) > 10000*10000, without leaving 32-bit integers
StitchTooLarge(width, height) ==
    width > 0 /\ height > MaxDim \div width

\* int((tx2-tx1+1) * (ty2-ty1+1) * uint32(len(opts.TileURLs)))
StitchTotalTiles(p, nURLs) ==
    Mul32(Mul32(Add32(Sub32(U32FromInt(p.tx2), U32FromInt(p.tx1)), One32),
                Add32(Sub32(U32FromInt(p.ty2), U32FromInt(p.ty1)), One32)),
          U32FromInt(nURLs))

\* the tile positions the two nested loops visit, in no particular order
GridPositions(p) == {<<x, y>> \in (p.tx1 .. p.tx2) \X (p.ty1 .. p.ty2) : TRUE}

\* the loops nested the other way round: columns outside, rows inside
NextPositionColumnMajor(p, x, y) ==
    IF y < p.ty2 THEN [more |-> TRUE, tx |-> x, ty |-> y + 1]
    ELSE IF x < p.tx2 /\ p.ty1 <= p.ty2 THEN [more |-> TRUE, tx |-> x + 1, ty |-> p.ty1]
    ELSE [more |-> FALSE, tx |-> x, ty |-> y]

\* the position the loops visit after (x, y); more = FALSE when both loops end
NextPosition(p, x, y) ==
    IF x < p.tx2 THEN [more |-> TRUE, tx |-> x + 1, ty |-> y]
    ELSE IF y < p.ty2 /\ p.tx1 <= p.tx2 THEN [more |-> TRUE, tx |-> p.tx1, ty |-> y + 1]
    ELSE [more |-> FALSE, tx |-> x, ty |-> y]

\* the tile offset stepping by half a tile from one position to the next
TileOffsetHalfStep(t, t1, tileSize, a) == (t - t1) * (tileSize \div 2) - a

\* xoff := int(tx-tx1)*TileSize - xa (and yoff likewise): where on the canvas
\* the tile of column (row) t starts
TileOffset(t, t1, tileSize, a) == (t - t1) * tileSize - a

\* the first position the loops visit
FirstPosition(p) ==
    [more |-> (p.ty1 <= p.ty2 /\ p.tx1 <= p.tx2), tx |-> p.tx1, ty |-> p.ty1]

-----------------------------------------------------------------------------
(* Georeferencing: the float64 values the world file is written from *)

\* A float64 is kept as its kind, its sign and the integer part of its
\* magnitude (metres, or metres per pixel); that is what decides how many
\* characters a %f conversion writes.
Real(m) == [kind |-> "finite", neg |-> (m < 0), int |-> IF m < 0 THEN -m ELSE m]
NaN == [kind |-> "NaN", neg |-> FALSE, int |-> 0]
Inf(neg) == [kind |-> "Inf", neg |-> neg, int |-> 0]

FloatNeg(a) == IF a.kind = "NaN" THEN a ELSE [a EXCEPT !.neg = ~a.neg]

FloatAbs(a) == IF a.kind = "NaN" THEN a ELSE [a EXCEPT !.neg = FALSE]

Signed(a) == IF a.neg THEN -a.int ELSE a.int

\* a - b
FloatSub(a, b) ==
    IF a.kind = "NaN" \/ b.kind = "NaN" THEN NaN
    ELSE IF a.kind = "Inf" /\ b.kind = "Inf"
         THEN (IF a.neg = b.neg THEN NaN ELSE a)
    ELSE IF a.kind = "Inf" THEN a
    ELSE IF b.kind = "Inf" THEN FloatNeg(b)
    ELSE Real(Signed(a) - Signed(b))

\* a / float64(n) for an int n >= 0
FloatDivInt(a, n) ==
    IF a.kind # "finite" THEN a
    ELSE IF n = 0 THEN (IF a.int = 0 THEN NaN ELSE Inf(a.neg))
    ELSE [kind |-> "finite", neg |-> a.neg, int |-> a.int \div n]

\* the x of projectlatlon: lon * originshift / 180, about 111319.49 m per
\* degree; lon in micro-degrees
projectlatlonX(lon) ==
    LET a == (IF lon < 0 THEN -lon ELSE lon) \div 1000
        m == a * 111 + (a * 319) \div 1000
    IN  Real(IF lon < 0 THEN -m ELSE m)

\* the y of projectlatlon, ln(tan((90+lat)*pi/360)) scaled to metres, evaluated
\* in float64 for the latitudes of the requests; beyond the pole the tangent is
\* negative and its logarithm a NaN
projectlatlonY(lat) ==
    CASE lat = 0 -> Real(0)
      [] lat = 10000000 -> Real(1118889)
      [] lat = 20000000 -> Real(2273030)
      [] lat = 37600000 -> Real(4523072)
      [] lat = 37700000 -> Real(4537132)
      [] lat = 37800000 -> Real(4551210)
      [] lat = -80000000 -> Real(-15538711)
      [] lat = 80000000 -> Real(15538711)
      [] lat = 100000000 -> NaN

\* projectlatlon of tile2latlon(v, _, 32): the Mercator coordinate is linear in
\* the fixed-point coordinate, 2*originshift / 2^16 = 611.496 m per unit of the
\* high limb
MetresOfFixed(v) ==
    LET d == v[1] - (B16 \div 2)
        a == IF d < 0 THEN -d ELSE d
        m == a * 611 + (a * 496) \div 1000
    IN  IF d < 0 THEN -m ELSE m

\* minX, minY, maxX, maxY, px, py as Stitch computes them
Georeference(o, p) ==
    LET minX == IF o.Mode = ModeCentered THEN Real(MetresOfFixed(p.x1))
                ELSE projectlatlonX(o.MinLon)
        maxX == IF o.Mode = ModeCentered THEN Real(MetresOfFixed(p.x2))
                ELSE projectlatlonX(o.MaxLon)
        minY == IF o.Mode = ModeCentered THEN Real(-MetresOfFixed(p.y2))
                ELSE projectlatlonY(o.MinLat)
        maxY == IF o.Mode = ModeCentered THEN Real(-MetresOfFixed(p.y1))
                ELSE projectlatlonY(o.MaxLat)
    IN  [MinX |-> minX, MaxY |-> maxY,
         PixelSizeX |-> FloatDivInt(FloatSub(maxX, minX), p.width),
         PixelSizeY |-> FloatDivInt(FloatAbs(FloatSub(maxY, minY)), p.height)]

RECURSIVE Digits(_)
Digits(n) == IF n < 10 THEN 1 ELSE 1 + Digits(n \div 10)

\* fmt.Sprintf("%24.10f", v) without the newline: a finite value is written
\* with its sign, all its integer digits, the point and 10 fractional digits,
\* then padded on the left to 24 characters if shorter; NaN and infinities are
\* written as "NaN", "+Inf", "-Inf" padded to 24
Sprintf24_10(v) ==
    LET len == IF v.kind = "finite"
               THEN (IF v.neg THEN 1 ELSE 0) + Digits(v.int) + 1 + 10
               ELSE IF v.kind = "NaN" THEN 3 ELSE 4
    IN  [chars |-> IF len < 24 THEN 24 ELSE len,
         fraction |-> IF v.kind = "finite" THEN 10 ELSE 0,
         value |-> v]

\* generateWorldFile: the six lines of the world file
generateWorldFile(pxSize, pySize, minx, maxy) ==
    <<Sprintf24_10(pxSize), Sprintf24_10(Real(0)), Sprintf24_10(Real(0)),
      Sprintf24_10(FloatNeg(pySize)), Sprintf24_10(minx), Sprintf24_10(maxy)>>

-----------------------------------------------------------------------------
(* Tile fetcher: what one attempt (one URL template at one position) yields *)

\* A response of a tile server: err = the transport failed (client.Do returned
\* an error); otherwise the status, the magic bytes of the body, whether the
\* image library decodes the body, and the decoded size.
Response(err, status, sig, decodes, width, height) ==
    [err |-> err, status |-> status, sig |-> sig, decodes |-> decodes,
     width |-> width, height |-> height]

TransportError == Response(TRUE, 0, "none", FALSE, 0, 0)
NotFound == Response(FALSE, 404, "other", FALSE, 0, 0)
GoodPNG(size) == Response(FALSE, 200, "png", TRUE, size, size)
GoodJPEG(size) == Response(FALSE, 200, "jpeg", TRUE, size, size)
CreatedPNG(size) == Response(FALSE, 201, "png", TRUE, size, size)
CorruptPNG == Response(FALSE, 200, "png", FALSE, 0, 0)
Garbage == Response(FALSE, 200, "other", FALSE, 0, 0)
WrongSizePNG(size) == Response(FALSE, 200, "png", TRUE, size + size, size)

\* downloadTile returns an error
downloadTileFails(r) == r.err \/ r.status # StatusOK

\* decodeImage returns an error
decodeImageFails(r) == ~(r.sig \in {"png", "jpeg"} /\ r.decodes)

\* the attempt judged without the comparison of the tile's size
AttemptErrorAnySize(r, tileSize) ==
    IF downloadTileFails(r) THEN (IF r.err THEN "transport error" ELSE "http status")
    ELSE IF decodeImageFails(r) THEN "decode error"
    ELSE "none"

\* the reason Stitch records for a failed attempt, "none" when the tile is accepted
AttemptError(r, tileSize) ==
    IF downloadTileFails(r) THEN (IF r.err THEN "transport error" ELSE "http status")
    ELSE IF decodeImageFails(r) THEN "decode error"
    ELSE IF r.height # tileSize \/ r.width # tileSize THEN "wrong tile size"
    ELSE "none"

\* FailedTile{URL: url, Error: ...}; StatusCode is a *int the code leaves nil,
\* written as the empty set
FailedTile(template, x, y, reason) ==
    [URL |-> <<template, x, y>>, StatusCode |-> {}, Error |-> reason]

\* the template loop without its break
TemplateLoopContinuesAlways(reason, template, nURLs) == template < nURLs

\* the template loop of Stitch goes on to the next template after a failed
\* attempt (continue) and is left after an accepted tile (break)
TemplateLoopContinues(reason, template, nURLs) ==
    reason # "none" /\ template < nURLs

-----------------------------------------------------------------------------
(* What the calls return *)

NotReturned == [result |-> {}, err |-> "pending", tileError |-> {}]

\* return nil, err
ErrorReturn(e) == [result |-> {}, err |-> e, tileError |-> {}]

\* the TileError returned together with the partly filled canvas
TileErrorReturnWithCanvas(failed, successful, total) ==
    [result |-> {[ImageData |-> "png", Width |-> 0, Height |-> 0,
                  WorldFileData |-> {}]},
     err |-> "TileError",
     tileError |-> {[FailedTiles |-> failed, SuccessfulTiles |-> successful,
                     TotalTiles |-> total]}]

\* return nil, &TileError{...}
TileErrorReturn(failed, successful, total) ==
    [result |-> {}, err |-> "TileError",
     tileError |-> {[FailedTiles |-> failed, SuccessfulTiles |-> successful,
                     TotalTiles |-> total]}]

\* return result, nil
ResultReturn(width, height, worldFileData) ==
    [result |-> {[ImageData |-> "png", Width |-> width, Height |-> height,
                  WorldFileData |-> worldFileData]},
     err |-> "nil", tileError |-> {}]

\* the threshold taken as all of totalTiles instead of half of it
TooManyFailuresOfAll(failed, total) == ~Leq32(U32FromInt(Len(failed)), total)

\* len(failedTiles) > totalTiles/2
TooManyFailures(failed, total) == Len(failed) > Half32(total)

\* png.Encode rejects an image without pixels
encodePNGFails(width, height) == width <= 0 \/ height <= 0

NoResponse == [status |-> 0, code |-> "none"]

-----------------------------------------------------------------------------
(* Requests *)

BBox(minLat, minLon, maxLat, maxLon, zoom, tileSize) ==
    [Mode |-> ModeBBox, MinLat |-> minLat, MinLon |-> minLon,
     MaxLat |-> maxLat, MaxLon |-> maxLon,
     CenterLat |-> 0, CenterLon |-> 0, Width |-> 0, Height |-> 0,
     Zoom |-> zoom, TileSize |-> tileSize]

Centered(lat, lon, width, height, zoom, tileSize) ==
    [Mode |-> ModeCentered, MinLat |-> 0, MinLon |-> 0, MaxLat |-> 0, MaxLon |-> 0,
     CenterLat |-> lat, CenterLon |-> lon, Width |-> width, Height |-> height,
     Zoom |-> zoom, TileSize |-> tileSize]

\* the options of one run: a region, the URL templates (named 1..n), the output
\* format, whether a world file is wanted
Options(region, nURLs, format, worldFile) ==
    [Mode |-> region.Mode, MinLat |-> region.MinLat, MinLon |-> region.MinLon,
     MaxLat |-> region.MaxLat, MaxLon |-> region.MaxLon,
     CenterLat |-> region.CenterLat, CenterLon |-> region.CenterLon,
     Width |-> region.Width, Height |-> region.Height,
     Zoom |-> region.Zoom, TileSize |-> region.TileSize,
     TileURLs |-> [i \in 1 .. nURLs |-> i],
     OutputFormat |-> format, GenerateWorldFile |-> worldFile,
     Output |-> "map.png", StdoutIsTerminal |-> FALSE]

OneTile == BBox(10000000, 10000000, 20000000, 20000000, 2, 256)
TwoTiles == BBox(10000000, -10000000, 20000000, 20000000, 2, 256)
FourTiles == BBox(37600000, -122500000, 37800000, -122300000, 10, 256)
TenTiles == BBox(37600000, -122500000, 37800000, -121200000, 10, 256)
CenteredFour == Centered(37774900, -122419400, 256, 256, 10, 256)
CenteredEdge == Centered(0, -180000000, 256, 4, 2, 256)
CenteredWorld == Centered(0, 0, 256, 256, 0, 256)
Continent == BBox(-80000000, -170000000, 80000000, 170000000, 10, 256)
AtCeiling == Centered(0, 0, 5000, 5000, 10, 512)
OverCeiling == Centered(0, 0, 5000, 5001, 10, 512)

\* what the servers may answer to an attempt
AnyResponse(size) ==
    {GoodPNG(size), GoodJPEG(size), CreatedPNG(size), TransportError, NotFound,
     CorruptPNG, Garbage, WrongSizePNG(size)}
UpOrDown(size) == {GoodPNG(size), TransportError}
AlwaysUp(size) == {GoodPNG(size)}

Run(pl, o, servers) == [pipeline |-> pl, opts |-> o, net |-> servers]

HTTPRuns ==
    {Run("http", Options(OneTile, n, f, w), AnyResponse(256)) :
        n \in 1 .. MaxTemplates, f \in {FormatPNG, FormatGeoTIFF}, w \in BOOLEAN}
    \cup {Run("http", Options(g, n, FormatPNG, FALSE), UpOrDown(256)) :
        g \in {TwoTiles, FourTiles}, n \in 1 .. MaxTemplates}
    \cup {Run("http", Options(g, 1, FormatPNG, TRUE), UpOrDown(256)) :
        g \in {TenTiles, CenteredFour, CenteredEdge, CenteredWorld, Continent}}
    \cup {Run("http", Options(g, 1, FormatPNG, FALSE), AlwaysUp(512)) :
        g \in {AtCeiling, OverCeiling}}

-----------------------------------------------------------------------------
(* Requests to the HTTP endpoint *)

\* api.StitchRequest as decoded from the body.  Pointer fields are sets: empty
\* for nil, a singleton otherwise.  The tile URL is kept as the set of the
\* placeholders it contains, with "host" for the rest of a non-empty URL.
StitchRequest(mode, bbox, center, zoom, url, format, tileSize, worldfile) ==
    [Json |-> TRUE, Mode |-> mode, Bbox |-> bbox, Center |-> center,
     Zoom |-> zoom, Url |-> url, Format |-> format, TileSize |-> tileSize,
     GenerateWorldfile |-> worldfile]

NoRequest == [StitchRequest("", {}, {}, 0, {}, {}, {}, {}) EXCEPT !.Json = FALSE]

ApiBbox(minLat, minLon, maxLat, maxLon) ==
    [MinLat |-> minLat, MinLon |-> minLon, MaxLat |-> maxLat, MaxLon |-> maxLon]

ApiCenter(lat, lon, width, height) ==
    [Lat |-> lat, Lon |-> lon, Width |-> width, Height |-> height]

FullUrl == {"host", "z", "x", "y"}

\* the validation with the bounds of the box compared by > instead of >=
validateStitchRequestStrictBounds(q) ==
    IF q.Mode = "bbox" /\ q.Bbox = {}
    THEN "bbox is required when mode is 'bbox'"
    ELSE IF q.Mode = "bbox" /\ q.Center # {}
    THEN "center should not be provided when mode is 'bbox'"
    ELSE IF q.Mode = "bbox" /\ (\E b \in q.Bbox : b.MinLat > b.MaxLat)
    THEN "min_lat must be less than max_lat"
    ELSE IF q.Mode = "bbox" /\ (\E b \in q.Bbox : b.MinLon > b.MaxLon)
    THEN "min_lon must be less than max_lon"
    ELSE IF q.Mode = "centered" /\ q.Center = {}
    THEN "center is required when mode is 'centered'"
    ELSE IF q.Mode = "centered" /\ q.Bbox # {}
    THEN "bbox should not be provided when mode is 'centered'"
    ELSE IF q.Mode = "centered" /\ (\E c \in q.Center : c.Width <= 0 \/ c.Height <= 0)
    THEN "width and height must be positive"
    ELSE IF q.Mode \notin {"bbox", "centered"}
    THEN "invalid mode"
    ELSE IF q.Zoom < 0 \/ q.Zoom > 20
    THEN "zoom must be between 0 and 20"
    ELSE IF q.Url = {}
    THEN "tile_source.url is required"
    ELSE IF ~("z" \in q.Url) \/ ~("x" \in q.Url) \/ ~("y" \in q.Url)
    THEN "tile_source.url must contain {z}, {x}, and {y} placeholders"
    ELSE "nil"

\* validateStitchRequest: "nil", or the message of the error it returns
validateStitchRequest(q) ==
    IF q.Mode = "bbox" /\ q.Bbox = {}
    THEN "bbox is required when mode is 'bbox'"
    ELSE IF q.Mode = "bbox" /\ q.Center # {}
    THEN "center should not be provided when mode is 'bbox'"
    ELSE IF q.Mode = "bbox" /\ (\E b \in q.Bbox : b.MinLat >= b.MaxLat)
    THEN "min_lat must be less than max_lat"
    ELSE IF q.Mode = "bbox" /\ (\E b \in q.Bbox : b.MinLon >= b.MaxLon)
    THEN "min_lon must be less than max_lon"
    ELSE IF q.Mode = "centered" /\ q.Center = {}
    THEN "center is required when mode is 'centered'"
    ELSE IF q.Mode = "centered" /\ q.Bbox # {}
    THEN "bbox should not be provided when mode is 'centered'"
    ELSE IF q.Mode = "centered" /\ (\E c \in q.Center : c.Width <= 0 \/ c.Height <= 0)
    THEN "width and height must be positive"
    ELSE IF q.Mode \notin {"bbox", "centered"}
    THEN "invalid mode"
    ELSE IF q.Zoom < 0 \/ q.Zoom > 20
    THEN "zoom must be between 0 and 20"
    ELSE IF q.Url = {}
    THEN "tile_source.url is required"
    ELSE IF ~("z" \in q.Url) \/ ~("x" \in q.Url) \/ ~("y" \in q.Url)
    THEN "tile_source.url must contain {z}, {x}, and {y} placeholders"
    ELSE "nil"

\* convertToStitcherOptions: one URL template, tile size 256 unless given
convertToStitcherOptions(q) ==
    LET tileSize == IF q.TileSize = {} THEN 256 ELSE CHOOSE t \in q.TileSize : TRUE
        format == IF "geotiff" \in q.Format THEN FormatGeoTIFF ELSE FormatPNG
        worldFile == TRUE \in q.GenerateWorldfile
        region ==
            IF q.Mode = "bbox"
            THEN LET b == CHOOSE b \in q.Bbox : TRUE
                 IN  BBox(b.MinLat, b.MinLon, b.MaxLat, b.MaxLon, q.Zoom, tileSize)
            ELSE LET c == CHOOSE c \in q.Center : TRUE
                 IN  Centered(c.Lat, c.Lon, c.Width, c.Height, q.Zoom, tileSize)
    IN  Options(region, 1, format, worldFile)

\* a bounding box of one tile at zoom 2, as a request
OneTileRequest ==
    StitchRequest("bbox", {ApiBbox(10000000, 10000000, 20000000, 20000000)}, {},
                  2, FullUrl, {}, {}, {})

\* a centered request of 256 x 256 pixels at zoom 10
CenteredRequest ==
    StitchRequest("centered", {}, {ApiCenter(37774900, -122419400, 256, 256)},
                  10, FullUrl, {"png"}, {256}, {FALSE})

\* a bounding box whose northern edge, 100 degrees, lies beyond the pole
PolarRequest ==
    StitchRequest("bbox", {ApiBbox(80000000, 10000000, 100000000, 20000000)}, {},
                  2, FullUrl, {"png"}, {}, {TRUE})

\* a bounding box of a tenth of a degree, less than a pixel at zoom 2
TinyRequest ==
    StitchRequest("bbox", {ApiBbox(37600000, -122500000, 37700000, -122400000)}, {},
                  2, FullUrl, {}, {}, {TRUE})

\* requests validateStitchRequest accepts
ValidRequests ==
    {OneTileRequest, CenteredRequest, PolarRequest, TinyRequest,
     [OneTileRequest EXCEPT !.Zoom = 0],
     [OneTileRequest EXCEPT !.Zoom = 20],
     [OneTileRequest EXCEPT !.TileSize = {100}],
     [OneTileRequest EXCEPT !.Format = {"geotiff"}],
     [OneTileRequest EXCEPT !.GenerateWorldfile = {TRUE}],
     [CenteredRequest EXCEPT !.TileSize = {512}]}

\* requests with one defect each
InvalidRequests ==
    {[OneTileRequest EXCEPT !.Bbox = {ApiBbox(la[1], 10000000, la[2], 20000000)}] :
        la \in {<<20000000, 20000000>>, <<20000000, 10000000>>}}
    \cup {[OneTileRequest EXCEPT !.Bbox = {ApiBbox(10000000, lo[1], 20000000, lo[2])}] :
        lo \in {<<20000000, 20000000>>, <<20000000, 10000000>>}}
    \cup {[CenteredRequest EXCEPT !.Center = {ApiCenter(37774900, -122419400, wh[1], wh[2])}] :
        wh \in {<<0, 256>>, <<256, 0>>, <<-1, 256>>, <<256, -1>>}}
    \cup {[OneTileRequest EXCEPT !.Zoom = z] : z \in {-1, 21}}
    \cup {[CenteredRequest EXCEPT !.Zoom = z] : z \in {-1, 21}}
    \cup {[OneTileRequest EXCEPT !.Bbox = {}],
          [CenteredRequest EXCEPT !.Center = {}],
          [OneTileRequest EXCEPT !.Center = {ApiCenter(37774900, -122419400, 256, 256)}],
          [CenteredRequest EXCEPT !.Bbox = {ApiBbox(10000000, 10000000, 20000000, 20000000)}],
          [OneTileRequest EXCEPT !.Mode = "tiles"]}
    \cup {[OneTileRequest EXCEPT !.Url = u] :
        u \in {{}, {"host"}, {"host", "x", "y"}, {"host", "z", "y"}, {"host", "z", "x"}}}

\* a body that is not JSON
MalformedRequest == [OneTileRequest EXCEPT !.Json = FALSE]

Requests == ValidRequests \cup InvalidRequests \cup {MalformedRequest}

\* the zero value of Options, before convertToStitcherOptions has run
NoOptions == Options(BBox(0, 0, 0, 0, 0, 0), 0, FormatPNG, FALSE)

-----------------------------------------------------------------------------
(* Canvases and decoded tiles *)

\* pixels on which the exact quotients of alphaBlend and its float64
\* evaluation agree, also for the results of blending them repeatedly
Palette == <<(<<0, 0, 0, 0>>), (<<100, 0, 50, 255>>), (<<0, 60, 50, 255>>),
             (<<0, 0, 50, 128>>)>>

\* a decoded tile of side x side pixels: ImageData{buf, width, height, depth}
TileImage(seed, side, depth) ==
    [width |-> side, height |-> side, depth |-> depth,
     buf |-> [i \in 0 .. side * side - 1 |-> Palette[((i + seed) % Len(Palette)) + 1]]]

\* a canvas nothing was composited into: no index written, no panic
Untouched(buf) == [buf |-> buf, writes |-> {}, panic |-> FALSE]

\* make([]byte, width*height*4): every byte zero
NewCanvas(width, height) == [i \in 0 .. width * height - 1 |-> <<0, 0, 0, 0>>]

\* a canvas on which tiles were composited before
UsedCanvas(width, height) ==
    [i \in 0 .. width * height - 1 |-> Palette[(i % Len(Palette)) + 1]]

PlacedTile(img, xoff, yoff) == [img |-> img, xoff |-> xoff, yoff |-> yoff]

NoCanvas ==
    [fn |-> "none", width |-> 0, height |-> 0, buf |-> NewCanvas(0, 0),
     A |-> PlacedTile(TileImage(0, 0, 4), 0, 0),
     B |-> PlacedTile(TileImage(0, 0, 4), 0, 0),
     first |-> Untouched(NewCanvas(0, 0)),
     ab |-> Untouched(NewCanvas(0, 0)), ba |-> Untouched(NewCanvas(0, 0))]

-----------------------------------------------------------------------------
(* Initial state: a run has been requested, nothing has executed *)

NoPixels == [src |-> <<0, 0, 0, 0>>, dst |-> <<0, 0, 0, 0>>, out |-> <<>>, fn |-> "none"]

InitRun(r) ==
    /\ pipeline = r.pipeline
    /\ opts = r.opts
    /\ net = r.net
    /\ ctx = "live"
    /\ pc = IF r.opts = NoOptions THEN "request" ELSE "start"
    /\ plan = NoPlan
    /\ bufAllocated = FALSE
    /\ ty = 0 /\ tx = 0 /\ k = 0
    /\ failedTiles = <<>>
    /\ successfulTiles = 0
    /\ totalTiles = Zero32
    /\ ret = NotReturned
    /\ http = NoResponse
    /\ written = {}
    /\ attempts = <<>>
    /\ placed = <<>>
    /\ cancelAt = "none"
    /\ loopDone = FALSE

\* the HTTP handler has received request q
InitRequest(q) ==
    /\ InitRun(Run("http", NoOptions, UpOrDown(256)))
    /\ req = q

-----------------------------------------------------------------------------
(* Server.CreateStitchedImage up to the call of Stitch *)

\* decode the body, validateStitchRequest, convertToStitcherOptions
CreateStitchedImageValidate ==
    /\ pipeline = "http" /\ pc = "request"
    /\ IF ~req.Json
       THEN /\ http' = [status |-> 400, code |-> "INVALID_JSON"]
            /\ pc' = "rejected"
            /\ UNCHANGED opts
       ELSE IF validateStitchRequest(req) # "nil"
       THEN /\ http' = [status |-> 400, code |-> "VALIDATION_ERROR"]
            /\ pc' = "rejected"
            /\ UNCHANGED opts
       ELSE /\ opts' = convertToStitcherOptions(req)
            /\ pc' = "start"
            /\ UNCHANGED http
    /\ UNCHANGED <<pipeline, build, req, cv, net, ctx, plan, bufAllocated, ty, tx, k,
                   failedTiles, successfulTiles, totalTiles, ret, written,
                   attempts, placed, cancelAt, px, loopDone>>

-----------------------------------------------------------------------------
(* Stitcher.Stitch, the HTTP pipeline *)

\* from the entry to the allocation of the canvas and the ledger
StitchPlan ==
    /\ pipeline = "http" /\ pc = "start"
    /\ LET p == GridPlan(Corners(opts), opts.Zoom, opts.TileSize)
           first == FirstPosition(p)
       IN  /\ plan' = p
           /\ IF StitchTooLarge(p.width, p.height)
              THEN /\ ret' = ErrorReturn("TooLarge")
                   /\ pc' = "done"
                   /\ UNCHANGED <<bufAllocated, totalTiles, tx, ty, k, loopDone>>
              ELSE /\ bufAllocated' = TRUE
                   /\ totalTiles' = StitchTotalTiles(p, Len(opts.TileURLs))
                   /\ tx' = first.tx /\ ty' = first.ty /\ k' = 1
                   /\ pc' = IF first.more /\ Len(opts.TileURLs) > 0
                            THEN "loop" ELSE "policy"
                   /\ loopDone' = ~(first.more /\ Len(opts.TileURLs) > 0)
                   /\ UNCHANGED ret
    /\ UNCHANGED <<pipeline, build, req, cv, opts, net, ctx, failedTiles, successfulTiles, http,
                   written, attempts, placed, cancelAt, px>>

\* top of the template loop: buildURL, then the select on ctx.Done()
StitchCheckContext ==
    /\ pipeline = "http" /\ pc = "loop"
    /\ IF ctx # "live"
       THEN /\ ret' = ErrorReturn(ctx)
            /\ pc' = "done"
       ELSE /\ pc' = "fetch"
            /\ UNCHANGED ret
    /\ UNCHANGED <<pipeline, build, req, cv, opts, net, ctx, plan, bufAllocated, ty, tx, k,
                   failedTiles, successfulTiles, totalTiles, http,
                   written, attempts, placed, cancelAt, px, loopDone>>

\* the attempt with the tile loops left as soon as a position has failed on
\* all its templates
StitchAttemptAbortsOnFailure(r) ==
    /\ pipeline = "http" /\ pc = "fetch"
    /\ LET reason == AttemptError(r, opts.TileSize)
           xoff == TileOffset(tx, plan.tx1, opts.TileSize, plan.xa)
           yoff == TileOffset(ty, plan.ty1, opts.TileSize, plan.ya)
           nxt == NextPosition(plan, tx, ty)
       IN  /\ attempts' = Append(attempts,
                  [tx |-> tx, ty |-> ty, k |-> k, ok |-> (reason = "none"),
                   resp |-> r])
           /\ IF reason # "none"
              THEN /\ failedTiles' =
                        Append(failedTiles, FailedTile(opts.TileURLs[k], tx, ty, reason))
                   /\ UNCHANGED <<successfulTiles, placed>>
              ELSE /\ placed' = Append(placed,
                        [tx |-> tx, ty |-> ty, k |-> k, xoff |-> xoff, yoff |-> yoff])
                   /\ successfulTiles' = successfulTiles + 1
                   /\ UNCHANGED failedTiles
           /\ IF TemplateLoopContinues(reason, k, Len(opts.TileURLs))
              THEN /\ k' = k + 1
                   /\ pc' = "loop"
                   /\ UNCHANGED <<tx, ty, loopDone>>
              ELSE /\ k' = 1
                   /\ tx' = nxt.tx /\ ty' = nxt.ty
                   /\ pc' = IF nxt.more /\ reason = "none" THEN "loop" ELSE "policy"
                   /\ loopDone' = ~(nxt.more /\ reason = "none")
    /\ UNCHANGED <<pipeline, build, req, cv, opts, net, ctx, plan, bufAllocated, totalTiles,
                   ret, http, written, cancelAt, px>>

\* downloadTile, decodeImage, the size check and copyTileToBuffer for template
\* k at position (tx, ty), and the move to the next template or position
StitchAttempt(r) ==
    /\ pipeline = "http" /\ pc = "fetch"
    /\ LET reason == AttemptError(r, opts.TileSize)
           xoff == TileOffset(tx, plan.tx1, opts.TileSize, plan.xa)
           yoff == TileOffset(ty, plan.ty1, opts.TileSize, plan.ya)
           nxt == NextPosition(plan, tx, ty)
       IN  /\ attempts' = Append(attempts,
                  [tx |-> tx, ty |-> ty, k |-> k, ok |-> (reason = "none"),
                   resp |-> r])
           /\ IF reason # "none"
              THEN /\ failedTiles' =
                        Append(failedTiles, FailedTile(opts.TileURLs[k], tx, ty, reason))
                   /\ UNCHANGED <<successfulTiles, placed>>
              ELSE /\ placed' = Append(placed,
                        [tx |-> tx, ty |-> ty, k |-> k, xoff |-> xoff, yoff |-> yoff])
                   /\ successfulTiles' = successfulTiles + 1
                   /\ UNCHANGED failedTiles
           /\ IF TemplateLoopContinues(reason, k, Len(opts.TileURLs))
              THEN /\ k' = k + 1
                   /\ pc' = "loop"
                   /\ UNCHANGED <<tx, ty, loopDone>>
              ELSE /\ k' = 1
                   /\ tx' = nxt.tx /\ ty' = nxt.ty
                   /\ pc' = IF nxt.more THEN "loop" ELSE "policy"
                   /\ loopDone' = ~nxt.more
    /\ UNCHANGED <<pipeline, build, req, cv, opts, net, ctx, plan, bufAllocated, totalTiles,
                   ret, http, written, cancelAt, px>>

\* a fetch ends with a response of the server, or, once the context is
\* cancelled, possibly with the transport's context error
StitchFetch ==
    \E r \in net \cup (IF ctx # "live" THEN {TransportError} ELSE {}) :
        StitchAttempt(r)

\* after the loops: the failure policy, the encoding, the result
StitchFinalize ==
    /\ pipeline = "http" /\ pc = "policy"
    /\ ret' =
         IF successfulTiles = 0
         THEN TileErrorReturn(failedTiles, successfulTiles, totalTiles)
         ELSE IF TooManyFailures(failedTiles, totalTiles)
         THEN TileErrorReturn(failedTiles, successfulTiles, totalTiles)
         ELSE IF opts.OutputFormat = FormatGeoTIFF
         THEN ErrorReturn("GeoTIFF output not yet implemented")
         ELSE IF encodePNGFails(plan.width, plan.height)
         THEN ErrorReturn("failed to encode output image")
         ELSE LET g == Georeference(opts, plan)
              IN  ResultReturn(plan.width, plan.height,
                      IF opts.GenerateWorldFile
                      THEN {generateWorldFile(g.PixelSizeX, g.PixelSizeY, g.MinX, g.MaxY)}
                      ELSE {})
    /\ pc' = "done"
    /\ UNCHANGED <<pipeline, build, req, cv, opts, net, ctx, plan, bufAllocated, ty, tx, k,
                   failedTiles, successfulTiles, totalTiles, http,
                   written, attempts, placed, cancelAt, px, loopDone>>

\* the request's context is cancelled, or its deadline passes, while Stitch runs
Cancel ==
    /\ pipeline = "http" /\ ctx = "live"
    /\ pc \in {"start", "loop", "fetch", "policy"}
    /\ \E why \in {"Canceled", "DeadlineExceeded"} : ctx' = why
    /\ cancelAt' = pc
    /\ UNCHANGED <<pipeline, build, req, cv, opts, net, pc, plan, bufAllocated, ty, tx, k,
                   failedTiles, successfulTiles, totalTiles, ret, http,
                   written, attempts, placed, px, loopDone>>

\* the timeout answer given for every error of the context
handleStitchingErrorAnyContext(e) ==
    IF e = "TileError" THEN [status |-> 502, code |-> "TILE_SERVER_ERROR"]
    ELSE IF e \in {"DeadlineExceeded", "Canceled"}
    THEN [status |-> 504, code |-> "TILE_SERVER_TIMEOUT"]
    ELSE [status |-> 500, code |-> "INTERNAL_ERROR"]

\* Server.CreateStitchedImage after Stitch returned, and handleStitchingError
handleStitchingError(e) ==
    IF e = "TileError" THEN [status |-> 502, code |-> "TILE_SERVER_ERROR"]
    ELSE IF e = "DeadlineExceeded" THEN [status |-> 504, code |-> "TILE_SERVER_TIMEOUT"]
    ELSE [status |-> 500, code |-> "INTERNAL_ERROR"]

CreateStitchedImage ==
    /\ pipeline = "http" /\ pc = "done"
    /\ http' = IF ret.err # "nil" THEN handleStitchingError(ret.err)
               ELSE [status |-> 200, code |-> "image"]
    /\ pc' = "responded"
    /\ UNCHANGED <<pipeline, build, req, cv, opts, net, ctx, plan, bufAllocated, ty, tx, k,
                   failedTiles, successfulTiles, totalTiles, ret,
                   written, attempts, placed, cancelAt, px, loopDone>>

-----------------------------------------------------------------------------
(* Stitcher.stitch, the CLI pipeline *)

CLIRuns ==
    {Run("cli", Options(g, n, FormatPNG, w), UpOrDown(256)) :
        g \in {OneTile, TwoTiles}, n \in 1 .. MaxTemplates, w \in BOOLEAN}
    \cup {Run("cli", Options(g, 1, FormatPNG, FALSE), AlwaysUp(512)) :
        g \in {AtCeiling, OverCeiling}}
    \cup {Run("cli", Options(OneTile, 2, FormatPNG, FALSE), AnyResponse(256)),
          Run("cli", Options(Continent, 1, FormatPNG, FALSE), UpOrDown(256)),
          Run("cli", Options(OneTile, 0, FormatPNG, FALSE), UpOrDown(256)),
          Run("cli", [Options(OneTile, 1, FormatPNG, FALSE) EXCEPT
                          !.Output = "", !.StdoutIsTerminal = TRUE], UpOrDown(256))}

\* dim > 10000*10000 in stitch
stitchTooBig(width, height) ==
    width > 0 /\ height > MaxDim \div width

\* from the entry of stitch to the allocation of the canvas
CLIStitchPlan ==
    /\ pipeline = "cli" /\ pc = "start"
    /\ LET p == GridPlan(Corners(opts), opts.Zoom, opts.TileSize)
           first == FirstPosition(p)
       IN  IF opts.Zoom < 0
           THEN /\ ret' = ErrorReturn("zoom less than 0") /\ pc' = "done"
                /\ UNCHANGED <<plan, bufAllocated, tx, ty, k, loopDone>>
           ELSE IF Len(opts.TileURLs) = 0
           THEN /\ ret' = ErrorReturn("no tile URLs provided") /\ pc' = "done"
                /\ UNCHANGED <<plan, bufAllocated, tx, ty, k, loopDone>>
           ELSE IF opts.Output = "" /\ opts.StdoutIsTerminal
           THEN /\ ret' = ErrorReturn("standard output is a terminal") /\ pc' = "done"
                /\ UNCHANGED <<plan, bufAllocated, tx, ty, k, loopDone>>
           ELSE /\ plan' = p
                /\ IF stitchTooBig(p.width, p.height)
                   THEN /\ ret' = ErrorReturn("that's too big") /\ pc' = "done"
                        /\ UNCHANGED <<bufAllocated, tx, ty, k, loopDone>>
                   ELSE /\ bufAllocated' = TRUE
                        /\ tx' = first.tx /\ ty' = first.ty /\ k' = 1
                        /\ pc' = IF first.more THEN "fetch" ELSE "write"
                        /\ loopDone' = ~first.more
                        /\ UNCHANGED ret
    /\ UNCHANGED <<pipeline, build, req, cv, opts, net, ctx, failedTiles, successfulTiles,
                   totalTiles, http, written, attempts, placed, cancelAt, px>>

\* one iteration of the template loop of stitch: DownloadTile, DecodeImage, the
\* size check and the copy into the canvas; the loop has no break, so the next
\* template of the position follows whatever this one yielded
CLIStitchAttempt(r) ==
    /\ pipeline = "cli" /\ pc = "fetch"
    /\ LET reason == AttemptError(r, opts.TileSize)
           xoff == TileOffset(tx, plan.tx1, opts.TileSize, plan.xa)
           yoff == TileOffset(ty, plan.ty1, opts.TileSize, plan.ya)
           nxt == NextPosition(plan, tx, ty)
       IN  /\ attempts' = Append(attempts,
                  [tx |-> tx, ty |-> ty, k |-> k, ok |-> (reason = "none"),
                   resp |-> r])
           /\ placed' = IF reason = "none"
                        THEN Append(placed, [tx |-> tx, ty |-> ty, k |-> k,
                                             xoff |-> xoff, yoff |-> yoff])
                        ELSE placed
           /\ IF k < Len(opts.TileURLs)
              THEN /\ k' = k + 1
                   /\ pc' = "fetch"
                   /\ UNCHANGED <<tx, ty, loopDone>>
              ELSE /\ k' = 1
                   /\ tx' = nxt.tx /\ ty' = nxt.ty
                   /\ pc' = IF nxt.more THEN "fetch" ELSE "write"
                   /\ loopDone' = ~nxt.more
    /\ UNCHANGED <<pipeline, build, req, cv, opts, net, ctx, plan, bufAllocated, failedTiles,
                   successfulTiles, totalTiles, ret, http, written, cancelAt, px>>

CLIStitchFetch == \E r \in net : CLIStitchAttempt(r)

\* after the loops: WritePNG, WriteWorldFile; creating a file may fail
CLIStitchWrite ==
    /\ pipeline = "cli" /\ pc = "write"
    /\ \E pngOK \in BOOLEAN, worldOK \in BOOLEAN :
         IF opts.OutputFormat = FormatGeoTIFF
         THEN /\ ret' = ErrorReturn("GeoTIFF output not yet implemented")
              /\ UNCHANGED written
         ELSE IF ~pngOK
         THEN /\ ret' = ErrorReturn("failed to write PNG")
              /\ UNCHANGED written
         ELSE IF opts.GenerateWorldFile /\ (opts.Output = "" \/ ~worldOK)
         THEN /\ ret' = ErrorReturn("failed to write world file")
              /\ written' = {"png"}
         ELSE /\ ret' = ErrorReturn("nil")
              /\ written' = IF opts.GenerateWorldFile
                            THEN {"png", "worldfile"} ELSE {"png"}
    /\ pc' = "done"
    /\ UNCHANGED <<pipeline, build, req, cv, opts, net, ctx, plan, bufAllocated, ty, tx, k,
                   failedTiles, successfulTiles, totalTiles, http,
                   attempts, placed, cancelAt, px, loopDone>>

-----------------------------------------------------------------------------
(* The specification of the two pipelines *)

Init ==
    /\ build \in Builds
    /\ px = NoPixels
    /\ cv = NoCanvas
    /\ \/ \E r \in HTTPRuns \cup CLIRuns : InitRun(r) /\ req = NoRequest
       \/ \E q \in Requests : InitRequest(q)

Next ==
    \/ CreateStitchedImageValidate
    \/ StitchPlan
    \/ StitchCheckContext
    \/ StitchFetch
    \/ StitchFinalize
    \/ Cancel
    \/ CreateStitchedImage
    \/ CLIStitchPlan
    \/ CLIStitchFetch
    \/ CLIStitchWrite

Spec == Init /\ [][Next]_vars

-----------------------------------------------------------------------------
(* Compositing of one pixel *)

\* alphaBlend(src, dst) of the HTTP pipeline.  Pixels are <<r, g, b, a>> of
\* bytes.  The code computes in float64; with S = src alpha, D = dst alpha
\*   ar = (S*(255-D) + 255*D) / 255^2
\*   cr = (c_src*S*(255-D) + 255*c_dst*D) / 255^3
\* and byte(x) truncates, so the channels are the integer quotients below.
\* The quotients are taken exactly; for the pixels of Pixels the float64
\* evaluation of the code yields the same bytes.
alphaBlend(src, dst) ==
    LET S == src[4]
        D == dst[4]
        den == S * (255 - D) + 255 * D
        ch(i) == (src[i] * S * (255 - D) + 255 * dst[i] * D) \div den
    IN  IF den > 0 THEN <<ch(1), ch(2), ch(3), den \div 255>>
        ELSE <<0, 0, 0, 0>>

\* tile.AlphaBlend(src, dst) of the CLI pipeline: the same computation
AlphaBlend(src, dst) ==
    LET S == src[4]
        D == dst[4]
        den == S * (255 - D) + 255 * D
        ch(i) == (src[i] * S * (255 - D) + 255 * dst[i] * D) \div den
    IN  IF den > 0 THEN <<ch(1), ch(2), ch(3), den \div 255>>
        ELSE <<0, 0, 0, 0>>

Pixels ==
    {<<r, g, b, a>> : r \in {0, 37, 100}, g \in {0, 60}, b \in {50},
                      a \in {0, 64, 128, 255}}

InitBlend ==
    /\ InitRun(Run("blend", Options(OneTile, 1, FormatPNG, FALSE), {}))
    /\ build \in Builds /\ req = NoRequest /\ cv = NoCanvas
    /\ \E s \in Pixels, d \in Pixels, f \in {"alphaBlend", "AlphaBlend"} :
           px = [src |-> s, dst |-> d, out |-> <<>>, fn |-> f]

\* copyTileToBuffer blends one source pixel into one canvas pixel
BlendServer ==
    /\ pipeline = "blend" /\ pc = "start" /\ px.fn = "alphaBlend"
    /\ px' = [px EXCEPT !.out = alphaBlend(px.src, px.dst)]
    /\ pc' = "done"
    /\ UNCHANGED <<pipeline, build, req, cv, opts, net, ctx, plan, bufAllocated, ty, tx, k,
                   failedTiles, successfulTiles, totalTiles, ret, http, written,
                   attempts, placed, cancelAt, loopDone>>

\* stitch blends one source pixel of a 4-channel tile into one canvas pixel
BlendCLI ==
    /\ pipeline = "blend" /\ pc = "start" /\ px.fn = "AlphaBlend"
    /\ px' = [px EXCEPT !.out = AlphaBlend(px.src, px.dst)]
    /\ pc' = "done"
    /\ UNCHANGED <<pipeline, build, req, cv, opts, net, ctx, plan, bufAllocated, ty, tx, k,
                   failedTiles, successfulTiles, totalTiles, ret, http, written,
                   attempts, placed, cancelAt, loopDone>>

NextBlend == BlendServer \/ BlendCLI

SpecBlend == InitBlend /\ [][NextBlend]_vars

-----------------------------------------------------------------------------
(* Compositing of a tile into the canvas *)

\* The canvas and the images are kept pixel by pixel: index i stands for the
\* four bytes 4*i .. 4*i+3 of the buffer.

\* the bounds test without the comparison with the right edge
InsideCanvasNoRightEdge(xd, yd, width, height) ==
    ~(xd < 0 \/ yd < 0 \/ yd >= height)

\* the negation of: xd < 0 || yd < 0 || xd >= width || yd >= height
InsideCanvas(xd, yd, width, height) ==
    ~(xd < 0 \/ yd < 0 \/ xd >= width \/ yd >= height)

\* the destination index taken one pixel further
DstIndexOffByOne(xd, yd, width) == yd * width + xd + 1

\* dstIdx / 4 = yd*width + xd
DstIndex(xd, yd, width) == yd * width + xd

\* srcIdx / 4 = y*img.width + x
SrcIndex(x, y, imgWidth) == y * imgWidth + x

\* what is stored at the destination: Stitcher.copyTileToBuffer always blends;
\* the CLI's stitch blends 4-channel tiles, copies RGB with alpha 255, and
\* spreads the first channel for anything else
StoredPixel(fn, depth, src, dst) ==
    IF fn = "copyTileToBuffer" THEN alphaBlend(src, dst)
    ELSE IF depth = 4 THEN AlphaBlend(src, dst)
    ELSE IF depth = 3 THEN <<src[1], src[2], src[3], 255>>
    ELSE <<src[1], src[1], src[1], 255>>

\* the two nested loops over the source pixels, y outside and x inside, from
\* source pixel n on; acc is the canvas so far, the destination indices
\* written, and whether an index was out of range (a run-time panic)
RECURSIVE CopyPixels(_, _, _, _, _, _, _, _)
CopyPixels(fn, img, acc, xoff, yoff, width, height, n) ==
    IF n >= img.width * img.height \/ acc.panic THEN acc
    ELSE LET x == n % img.width
             y == n \div img.width
             xd == x + xoff
             yd == y + yoff
             d == DstIndex(xd, yd, width)
         IN  IF ~InsideCanvas(xd, yd, width, height)
             THEN CopyPixels(fn, img, acc, xoff, yoff, width, height, n + 1)
             ELSE IF d \notin DOMAIN acc.buf
             THEN [acc EXCEPT !.panic = TRUE]
             ELSE CopyPixels(fn, img,
                      [buf |-> [acc.buf EXCEPT ![d] =
                                   StoredPixel(fn, img.depth,
                                               img.buf[SrcIndex(x, y, img.width)],
                                               acc.buf[d])],
                       writes |-> acc.writes \cup {d},
                       panic |-> FALSE],
                      xoff, yoff, width, height, n + 1)

\* Stitcher.copyTileToBuffer(img, buf, xoff, yoff, width, height)
copyTileToBuffer(img, buf, xoff, yoff, width, height) ==
    CopyPixels("copyTileToBuffer", img, Untouched(buf), xoff, yoff, width, height, 0)

\* the copy loops inside the CLI's stitch
stitchCopy(img, buf, xoff, yoff, width, height) ==
    CopyPixels("stitch", img, Untouched(buf), xoff, yoff, width, height, 0)

CopyBy(fn, img, buf, xoff, yoff, width, height) ==
    IF fn = "copyTileToBuffer"
    THEN copyTileToBuffer(img, buf, xoff, yoff, width, height)
    ELSE stitchCopy(img, buf, xoff, yoff, width, height)

\* the offsets a tile can be given: from wholly left of (above) the canvas to
\* wholly right of (below) it
InitCanvas ==
    /\ InitRun(Run("canvas", Options(OneTile, 1, FormatPNG, FALSE), {}))
    /\ build \in {"nan is zero"} /\ req = NoRequest /\ px = NoPixels
    /\ \E fn \in {"copyTileToBuffer", "stitch"},
          b \in {NewCanvas(CanvasWidth, CanvasHeight), UsedCanvas(CanvasWidth, CanvasHeight)},
          xa \in -TileSide .. CanvasWidth, ya \in -TileSide .. CanvasHeight,
          xb \in -TileSide .. CanvasWidth, yb \in -TileSide .. CanvasHeight,
          depth \in {4, 3, 1} :
          /\ fn = "copyTileToBuffer" => depth = 4
          /\ cv = [NoCanvas EXCEPT
                      !.fn = fn, !.width = CanvasWidth, !.height = CanvasHeight,
                      !.buf = b, !.first = Untouched(b),
                      !.A = PlacedTile(TileImage(1, TileSide, depth), xa, ya),
                      !.B = PlacedTile(TileImage(2, TileSide, 4), xb, yb)]

\* tile A is composited into the canvas
CanvasCopy ==
    /\ pipeline = "canvas" /\ pc = "start"
    /\ cv' = [cv EXCEPT !.first =
                 CopyBy(cv.fn, cv.A.img, cv.buf, cv.A.xoff, cv.A.yoff, cv.width, cv.height)]
    /\ pc' = "copied"
    /\ UNCHANGED <<pipeline, build, req, opts, net, ctx, plan, bufAllocated, ty, tx, k,
                   failedTiles, successfulTiles, totalTiles, ret, http, written,
                   attempts, placed, cancelAt, loopDone, px>>

\* tile B is composited after A, and, on a second copy of the canvas, B first
\* and A after it
CanvasCopyBoth ==
    /\ pipeline = "canvas" /\ pc = "copied"
    /\ LET bFirst == CopyBy(cv.fn, cv.B.img, cv.buf, cv.B.xoff, cv.B.yoff,
                            cv.width, cv.height)
       IN  cv' = [cv EXCEPT
                    !.ab = CopyBy(cv.fn, cv.B.img, cv.first.buf, cv.B.xoff, cv.B.yoff,
                                  cv.width, cv.height),
                    !.ba = CopyBy(cv.fn, cv.A.img, bFirst.buf, cv.A.xoff, cv.A.yoff,
                                  cv.width, cv.height)]
    /\ pc' = "done"
    /\ UNCHANGED <<pipeline, build, req, opts, net, ctx, plan, bufAllocated, ty, tx, k,
                   failedTiles, successfulTiles, totalTiles, ret, http, written,
                   attempts, placed, cancelAt, loopDone, px>>

NextCanvas == CanvasCopy \/ CanvasCopyBoth

SpecCanvas == InitCanvas /\ [][NextCanvas]_vars

-----------------------------------------------------------------------------
(* Properties *)

Finished == pc \in {"done", "responded"}

SamePosition(a, b) == a.tx = b.tx /\ a.ty = b.ty

\* the positions at which every URL template was tried and failed
FailedPositions ==
    {pos \in GridPositions(plan) :
        \A t \in 1 .. Len(opts.TileURLs) :
            \E i \in DOMAIN attempts :
                /\ attempts[i].tx = pos[1] /\ attempts[i].ty = pos[2]
                /\ attempts[i].k = t /\ ~attempts[i].ok}

\* C1: in the HTTP pipeline a run that completes the tile loop with
\* successfulTiles = 0 returns a TileError with a non-empty FailedTiles and
\* TotalTiles > 0, returns no Result, and is answered with 502
\* TILE_SERVER_ERROR.
C1_ZeroSuccessIsHardFailure ==
    (pipeline = "http" /\ loopDone /\ Finished /\ successfulTiles = 0) =>
        /\ ret.err = "TileError"
        /\ ret.result = {}
        /\ ret.tileError # {}
        /\ \A e \in ret.tileError :
               e.FailedTiles # <<>> /\ e.TotalTiles # Zero32
        /\ pc = "responded" =>
               http = [status |-> 502, code |-> "TILE_SERVER_ERROR"]

\* C2: once Stitch has processed all tile positions, if the positions at which
\* every template failed number more than half the positions, Stitch returns a
\* TileError and no Result, even though some tiles succeeded.
C2_MajorityFailedIsHardFailure ==
    (pipeline = "http" /\ loopDone /\ Finished
        /\ Cardinality(FailedPositions) > Cardinality(GridPositions(plan)) \div 2)
    => (ret.err = "TileError" /\ ret.result = {})

\* 3 of 10 positions succeeded, 7 failed, and the run ended in a TileError
C2_Witness ==
    /\ pipeline = "http" /\ loopDone /\ pc = "done"
    /\ Cardinality(GridPositions(plan)) = 10
    /\ Cardinality(FailedPositions) = 7
    /\ successfulTiles = 3
    /\ ret.err = "TileError"

\* C3: whenever Stitch finishes the tile loop with at least one successful
\* position and with at most half of the positions failed, it returns a Result
\* and no error, for any number of URL templates.  (Stated here for PNG output
\* and a canvas that has pixels, where the encoding cannot fail.)
C3_MinorityFailedIsPartialSuccess ==
    (pipeline = "http" /\ loopDone /\ Finished
        /\ opts.OutputFormat = FormatPNG /\ plan.width > 0 /\ plan.height > 0
        /\ successfulTiles >= 1
        /\ Cardinality(FailedPositions) <= Cardinality(GridPositions(plan)) \div 2)
    => (ret.result # {} /\ ret.err = "nil")

\* C4: the ledger's totalTiles equals the number of tile positions,
\* (tx2-tx1+1)*(ty2-ty1+1), whatever the number of URL templates.
C4_TotalTilesCountsPositions ==
    (pipeline = "http" /\ bufAllocated
        /\ plan.tx1 <= plan.tx2 /\ plan.ty1 <= plan.ty2)
    => totalTiles =
           U32FromInt((plan.tx2 - plan.tx1 + 1) * (plan.ty2 - plan.ty1 + 1))

\* C5: after the loop the failure ledger holds exactly one entry for each
\* position at which all templates failed and none for any other position.
C5_OneLedgerEntryPerFailedPosition ==
    (pipeline = "http" /\ loopDone) =>
        /\ Len(failedTiles) = Cardinality(FailedPositions)
        /\ \A i \in DOMAIN failedTiles :
               <<failedTiles[i].URL[2], failedTiles[i].URL[3]>> \in FailedPositions

\* C6: in both pipelines the templates of a position are tried in declared
\* order, and once a template's tile has been accepted no later template is
\* fetched or placed for that position.  Every attempt is the newest one in
\* some state, so it is stated for the newest attempt against all earlier ones.
C6_FirstSuccessWins ==
    LET n == Len(attempts)
    IN  /\ \A i \in 1 .. n - 1 :
               SamePosition(attempts[i], attempts[n]) =>
                   (~attempts[i].ok /\ attempts[i].k < attempts[n].k)
        /\ \A i \in 1 .. Len(placed) - 1 :
               ~SamePosition(placed[i], placed[Len(placed)])

\* C7: a fully opaque source pixel blended onto any destination pixel yields
\* the source pixel.
C7_OpaqueSourceWins ==
    (pipeline = "blend" /\ pc = "done" /\ px.src[4] = 255) => px.out = px.src

\* C8: Stitch never returns a Result together with an error: a non-nil error
\* comes with a nil Result, and a Result comes with a nil error.
C8_NoResultWithError ==
    (pipeline = "http" /\ Finished) =>
        /\ ret.err # "nil" => ret.result = {}
        /\ ret.result # {} => ret.err = "nil"

\* a run that had composited tiles into the canvas and then failed
C8_Witness ==
    /\ pipeline = "http" /\ pc = "done"
    /\ ret.err = "TileError" /\ ret.result = {}
    /\ bufAllocated /\ placed # <<>>

\* C9: if the context is cancelled between tile fetches or while a fetch is in
\* flight (the last one included), Stitch returns the context's error, never a
\* TileError and never a Result.
C9_CancellationIsDistinct ==
    (pipeline = "http" /\ Finished /\ cancelAt \in {"loop", "fetch"})
    => (ret.err = ctx /\ ret.result = {})

\* width * height > 10000*10000, by division
ExceedsCeiling(width, height) ==
    width > 0 /\ height > MaxDim \div width

SizeRejected == ret.err \in {"TooLarge", "that's too big"}

\* the run got as far as the size check
SizeChecked ==
    /\ pc \notin {"request", "rejected", "start"}
    /\ ret.err \notin {"zoom less than 0", "no tile URLs provided",
                       "standard output is a terminal"}

\* C10: in both pipelines a canvas of more than 100,000,000 pixels is rejected
\* with an error before the canvas is allocated and before any tile is fetched;
\* a canvas of at most 100,000,000 pixels passes the check and is allocated
\* with the computed size.
C10_SizeCeiling ==
    (pipeline \in {"http", "cli"} /\ SizeChecked) =>
        IF ExceedsCeiling(plan.width, plan.height)
        THEN /\ Finished /\ SizeRejected
             /\ ret.result = {} /\ written = {}
             /\ ~bufAllocated /\ attempts = <<>>
        ELSE ~SizeRejected /\ bufAllocated

\* a 10000 x 10002 canvas was refused
C10_Witness ==
    /\ pipeline = "http" /\ pc = "done"
    /\ plan.width = 10000 /\ plan.height = 10002
    /\ ret.err = "TooLarge" /\ ~bufAllocated

\* C11: asking for GeoTIFF output is never a hard failure: a run of Stitch
\* that would return a PNG Result (tiles succeeded, the failure policy passed,
\* the canvas can be encoded) returns that PNG Result and no error when the
\* requested format is GeoTIFF too.
C11_GeoTIFFIsNotAHardFailure ==
    (pipeline = "http" /\ loopDone /\ Finished
        /\ opts.OutputFormat = FormatGeoTIFF
        /\ successfulTiles >= 1 /\ ~TooManyFailures(failedTiles, totalTiles)
        /\ ~encodePNGFails(plan.width, plan.height))
    => (ret.err = "nil" /\ \E res \in ret.result : res.ImageData = "png")

\* the latitude is strictly inside (-85.05, 85.05) degrees
InProjectionDomain(lat) == -85050000 < lat /\ lat < 85050000

\* the latitudes the projection of a request is applied to
ProjectedLatitudes(o) ==
    IF o.Mode = ModeCentered THEN {o.CenterLat} ELSE {o.MinLat, o.MaxLat}

\* Stitch has been entered and has moved past its first statement
StitchEntered == pc \notin {"request", "rejected", "start"}

\* C12: a request with a projected latitude outside (-85.05, 85.05) degrees is
\* aborted with a ProjectionDomainError before any tile is fetched and before a
\* tile range is computed from that latitude.
C12_ProjectionDomainError ==
    (pipeline = "http" /\ StitchEntered
        /\ \E lat \in ProjectedLatitudes(opts) : ~InProjectionDomain(lat))
    => (ret.err = "ProjectionDomainError" /\ attempts = <<>> /\ plan = NoPlan)

\* the response was downloaded and decoded, and its image is not tileSize square
WrongSize(r, tileSize) ==
    /\ ~downloadTileFails(r) /\ ~decodeImageFails(r)
    /\ (r.width # tileSize \/ r.height # tileSize)

\* C13: an attempt whose decoded tile is not of the configured size is a failed
\* attempt: nothing is placed on the canvas, successfulTiles does not move, the
\* HTTP ledger gets an entry, and the next template of the position, if there
\* is one, is the next to be tried.
C13_WrongSizeTileIsFailedAttempt ==
    [][(/\ Len(attempts') = Len(attempts) + 1
        /\ WrongSize(attempts'[Len(attempts')].resp, opts.TileSize))
       => (/\ ~attempts'[Len(attempts')].ok
           /\ placed' = placed
           /\ successfulTiles' = successfulTiles
           /\ pipeline = "http" => Len(failedTiles') = Len(failedTiles) + 1
           /\ k < Len(opts.TileURLs) =>
                  (k' = k + 1 /\ tx' = tx /\ ty' = ty /\ pc' \in {"loop", "fetch"}))]_vars

\* the first template gave a tile of the wrong size, the second one was tried
\* and placed
C13_Witness ==
    /\ Len(attempts) = 2 /\ Len(opts.TileURLs) = 2
    /\ WrongSize(attempts[1].resp, opts.TileSize) /\ ~attempts[1].ok
    /\ SamePosition(attempts[1], attempts[2])
    /\ attempts[2].k = 2 /\ attempts[2].ok
    /\ Len(placed) = 1 /\ placed[1].k = 2

\* C14: a fetch answered with a non-2xx status leaves a ledger entry that
\* carries that status code; the entry of a transport failure carries none.
C14_LedgerCarriesStatusCode ==
    (pipeline = "http" /\ attempts # <<>> /\ failedTiles # <<>>) =>
        LET r == attempts[Len(attempts)].resp
            entry == failedTiles[Len(failedTiles)]
        IN  /\ (~r.err /\ r.status \notin 200 .. 299) => entry.StatusCode = {r.status}
            /\ r.err => entry.StatusCode = {}

\* the defects validation is to reject, read off the request
Defective(q) ==
    \/ q.Mode = "bbox" /\ q.Bbox = {}
    \/ q.Mode = "centered" /\ q.Center = {}
    \/ q.Mode = "bbox" /\ \E b \in q.Bbox : b.MinLat >= b.MaxLat \/ b.MinLon >= b.MaxLon
    \/ q.Mode = "centered" /\ \E c \in q.Center : c.Width <= 0 \/ c.Height <= 0
    \/ q.Zoom < 0 \/ q.Zoom > 20
    \/ ~({"z", "x", "y"} \subseteq q.Url)

C16_ErrorStatusMapping ==
    (pipeline = "http" /\ pc = "responded") =>
        /\ ret.err = "TileError" => http.status = 502
        /\ ret.err = "DeadlineExceeded" => http.status = 504
        /\ ret.err \notin {"nil", "TileError", "DeadlineExceeded"} => http.status = 500
        /\ http.status = 200 <=> ret.err = "nil"

\* a cancelled (not timed out) request was answered 500
C16_Witness ==
    /\ pipeline = "http" /\ pc = "responded"
    /\ ret.err = "Canceled" /\ http.status = 500

\* C17: the canvas of a centered request is exactly Width x Height pixels.
C17_CenteredCanvasSize ==
    (pipeline = "http" /\ StitchEntered /\ opts.Mode = ModeCentered) =>
        (plan.width = opts.Width /\ plan.height = opts.Height)

\* C18: a Result carries world-file data exactly when it was requested, and the
\* data are six lines of exactly 24 characters with 10 fractional digits:
\* pixelSizeX, 0, 0, -pixelSizeY, minX, maxY.
C18_WorldFileShape ==
    (pipeline = "http" /\ Finished) =>
        \A res \in ret.result :
            /\ res.WorldFileData # {} <=> opts.GenerateWorldFile
            /\ \A wf \in res.WorldFileData :
                   LET g == Georeference(opts, plan)
                   IN  /\ Len(wf) = 6
                       /\ \A i \in 1 .. 6 : wf[i].chars = 24 /\ wf[i].fraction = 10
                       /\ wf[1].value = g.PixelSizeX
                       /\ wf[2].value = Real(0) /\ wf[3].value = Real(0)
                       /\ wf[4].value = FloatNeg(g.PixelSizeY)
                       /\ wf[5].value = g.MinX /\ wf[6].value = g.MaxY

\* C19: a run of the CLI's stitch in which no tile was fetched and decoded at
\* any position returns an error and writes no output image.
C19_CLIZeroSuccessIsHardFailure ==
    (pipeline = "cli" /\ pc = "done" /\ loopDone /\ placed = <<>>) =>
        (ret.err # "nil" /\ written = {})

\* C20: Stitch starts at (tx1, ty1) with the first template; each further
\* attempt is the next template of the same position after a failure, or the
\* first template of the next position in row-major order; and when a fetch
\* starts every earlier attempt has been settled in the ledger or on the canvas.
\* Every attempt is the newest one in some state.
C20_RowMajorSequential ==
    (pipeline = "http" /\ attempts # <<>>) =>
        LET n == Len(attempts)
            b == attempts[n]
        IN  /\ n = 1 => (b.tx = plan.tx1 /\ b.ty = plan.ty1 /\ b.k = 1)
            /\ n > 1 =>
                   LET a == attempts[n - 1]
                   IN  IF SamePosition(a, b)
                       THEN ~a.ok /\ b.k = a.k + 1
                       ELSE /\ b.k = 1
                            /\ \/ b.ty = a.ty /\ b.tx = a.tx + 1
                               \/ b.ty = a.ty + 1 /\ b.tx = plan.tx1 /\ a.tx = plan.tx2
            /\ b.ty \in plan.ty1 .. plan.ty2 /\ b.tx \in plan.tx1 .. plan.tx2
            /\ n = Len(failedTiles) + Len(placed)

\* the loops have moved from the end of the first row to the start of the second
C20_Witness ==
    /\ pipeline = "http" /\ Len(attempts) >= 3
    /\ LET a == attempts[Len(attempts) - 1]
           b == attempts[Len(attempts)]
       IN  /\ a.tx = plan.tx2 /\ a.tx > plan.tx1
           /\ b.ty = a.ty + 1 /\ b.tx = plan.tx1

\* the positions at which a fetch was started
AttemptedPositions == {<<attempts[i].tx, attempts[i].ty>> : i \in DOMAIN attempts}

\* Stitch has gone past the tile loops to the failure policy
PolicyApplied ==
    \/ pc = "policy"
    \/ ret.err \in {"TileError", "nil", "GeoTIFF output not yet implemented",
                    "failed to encode output image"}

\* C21: a failed tile never ends the run of Stitch: no (position, template)
\* pair is fetched twice, the failure policy is applied only after the tile
\* loops have ended, and, absent cancellation, when the loops have ended every
\* position of [tx1..tx2] x [ty1..ty2] has been attempted, whatever failed
\* before it.  Every attempt is the newest one in some state.
C21_FailuresNeverAbort ==
    (pipeline = "http" /\ StitchEntered) =>
        /\ \A i \in 1 .. Len(attempts) - 1 :
               ~(SamePosition(attempts[i], attempts[Len(attempts)])
                   /\ attempts[i].k = attempts[Len(attempts)].k)
        /\ PolicyApplied => loopDone
        /\ (loopDone /\ cancelAt = "none") => AttemptedPositions = GridPositions(plan)

\* the first position failed on all its templates, and the loops still went on
\* to the last position, which succeeded
C21_Witness ==
    /\ pipeline = "http" /\ loopDone /\ cancelAt = "none"
    /\ Len(attempts) >= 2
    /\ <<attempts[1].tx, attempts[1].ty>> \in FailedPositions
    /\ attempts[Len(attempts)].ok
    /\ AttemptedPositions = GridPositions(plan)
    /\ Cardinality(GridPositions(plan)) >= 2

\* C22: a response with any 2xx status is passed to format sniffing: the tile
\* is accepted exactly when its body has the PNG or the JPEG signature, decodes
\* and has the configured size; the status itself never fails the attempt.
C22_Every2xxIsAccepted ==
    (pipeline \in {"http", "cli"} /\ attempts # <<>>) =>
        LET a == attempts[Len(attempts)]
            r == a.resp
        IN  (~r.err /\ r.status \in 200 .. 299) =>
                (a.ok <=> (/\ r.sig \in {"png", "jpeg"} /\ r.decodes
                           /\ r.width = opts.TileSize /\ r.height = opts.TileSize))

\* the request is one validation and the projection's domain allow
ValidatedOptions(o) ==
    /\ o.Zoom \in 0 .. 20 /\ o.TileSize \in {256, 512}
    /\ IF o.Mode = ModeCentered
       THEN o.Width > 0 /\ o.Height > 0 /\ InProjectionDomain(o.CenterLat)
       ELSE /\ o.MinLat < o.MaxLat /\ o.MinLon < o.MaxLon
            /\ InProjectionDomain(o.MinLat) /\ InProjectionDomain(o.MaxLat)

\* a * m does not fit in 32 bits
MulOverflows(a, m) == a[1] * m + (a[2] * m) \div B16 >= B16

\* (v2 >> s) - (v1 >> s) does not borrow and its product with tileSize fits
ExtentIsExact(v1, v2, s, tileSize) ==
    /\ Leq32(Shr32(v1, s), Shr32(v2, s))
    /\ ~MulOverflows(Sub32(Shr32(v2, s), Shr32(v1, s)), tileSize)

\* C25: for a validated request the uint32 arithmetic of the plan does not
\* wrap: in centered mode x1 <= cx <= x2 and y1 <= cy <= y2, and in both modes
\* the canvas width and height are the mathematical values.
C25_PlanArithmeticDoesNotWrap ==
    (pipeline = "http" /\ StitchEntered /\ ValidatedOptions(opts)) =>
        LET s == 32 - (opts.Zoom + 8)
            c == latlon2tile(opts.CenterLat, opts.CenterLon)
        IN  /\ opts.Mode = ModeCentered =>
                   /\ Leq32(plan.x1, c[1]) /\ Leq32(c[1], plan.x2)
                   /\ Leq32(plan.y1, c[2]) /\ Leq32(c[2], plan.y2)
            /\ ExtentIsExact(plan.x1, plan.x2, s, opts.TileSize)
            /\ ExtentIsExact(plan.y1, plan.y2, s, opts.TileSize)

\* C27: the sub-tile offsets xa, ya lie in [0, tileSize), so the offset of the
\* first tile, at (tx1, ty1), lies in (-tileSize, 0] on each axis.
C27_SubTileOffsetsInRange ==
    (pipeline = "http" /\ StitchEntered) =>
        /\ 0 <= plan.xa /\ plan.xa < opts.TileSize
        /\ 0 <= plan.ya /\ plan.ya < opts.TileSize
        /\ -opts.TileSize < TileOffset(plan.tx1, plan.tx1, opts.TileSize, plan.xa)
        /\ TileOffset(plan.tx1, plan.tx1, opts.TileSize, plan.xa) <= 0
        /\ -opts.TileSize < TileOffset(plan.ty1, plan.ty1, opts.TileSize, plan.ya)
        /\ TileOffset(plan.ty1, plan.ty1, opts.TileSize, plan.ya) <= 0

\* the canvas starts inside the first tile, not at its corner, and that tile
\* was placed at a negative offset
C27_Witness ==
    /\ pipeline = "http" /\ plan.xa > 0 /\ plan.ya > 0
    /\ placed # <<>> /\ placed[1].xoff = -plan.xa /\ placed[1].yoff = -plan.ya
    /\ placed[1].tx = plan.tx1 /\ placed[1].ty = plan.ty1

\* C29: during the tile loop each position is composited at most once and
\* counted once, successfulTiles never exceeds the number of positions visited,
\* and when the loop has ended without cancellation successfulTiles plus the
\* number of positions at which all templates failed is the number of positions.
C29_PositionsCountedOnce ==
    (pipeline = "http" /\ StitchEntered) =>
        /\ \A i \in 1 .. Len(placed) - 1 :
               ~SamePosition(placed[i], placed[Len(placed)])
        /\ successfulTiles = Len(placed)
        /\ successfulTiles <= Cardinality(AttemptedPositions)
        /\ (loopDone /\ cancelAt = "none" /\ plan.tx1 <= plan.tx2 /\ plan.ty1 <= plan.ty2) =>
               successfulTiles + Cardinality(FailedPositions)
                   = (plan.tx2 - plan.tx1 + 1) * (plan.ty2 - plan.ty1 + 1)

\* a position failed on its first template, was composited from its second,
\* and was counted once
C29_Witness ==
    /\ pipeline = "http" /\ loopDone /\ cancelAt = "none"
    /\ Len(opts.TileURLs) = 2 /\ Len(attempts) >= 3
    /\ successfulTiles >= 1 /\ Cardinality(FailedPositions) >= 1
    /\ \E i \in DOMAIN placed : placed[i].k = 2

\* C30: a bounding box with minLat < maxLat and minLon < maxLon, inside the
\* projection's domain, at a zoom in [0, 20] has a canvas of at least 1 x 1
\* pixels.
C30_BBoxCanvasIsNotEmpty ==
    (pipeline = "http" /\ StitchEntered /\ opts.Mode = ModeBBox
        /\ ValidatedOptions(opts))
    => (plan.width >= 1 /\ plan.height >= 1)

\* the intervals [a, a + size) and [b, b + size) share a point of [0, limit)
MeetOnCanvas(a, b, size, limit) ==
    LET lo == IF a > b THEN a ELSE b
        hi == IF a < b THEN a + size ELSE b + size
    IN  (IF lo > 0 THEN lo ELSE 0) < (IF hi < limit THEN hi ELSE limit)

TilesOver(c, t1, t2, tileSize, a) ==
    {t \in t1 .. t2 :
        /\ TileOffset(t, t1, tileSize, a) <= c
        /\ c < TileOffset(t, t1, tileSize, a) + tileSize}

\* C26: for every plan whose canvas is allocated, each canvas column lies in
\* the destination interval of exactly one tile column of tx1..tx2 and each
\* canvas row in that of exactly one tile row of ty1..ty2, so every canvas
\* pixel lies in the rectangle of exactly one position.  (Evaluated when the
\* plan has just been computed.)
C26_GridCoversCanvas ==
    (pipeline = "http" /\ bufAllocated /\ attempts = <<>>
        /\ plan.width > 0 /\ plan.height > 0) =>
        /\ \A c \in 0 .. plan.width - 1 :
               Cardinality(TilesOver(c, plan.tx1, plan.tx2, opts.TileSize, plan.xa)) = 1
        /\ \A c \in 0 .. plan.height - 1 :
               Cardinality(TilesOver(c, plan.ty1, plan.ty2, opts.TileSize, plan.ya)) = 1

\* the destination rectangles of the two tiles have no pixel in common
DisjointRectangles(a, b) ==
    \/ a.xoff + a.img.width <= b.xoff \/ b.xoff + b.img.width <= a.xoff
    \/ a.yoff + a.img.height <= b.yoff \/ b.yoff + b.img.height <= a.yoff

\* C23: when the destination rectangles of tiles A and B do not overlap,
\* compositing A then B and compositing B then A leave the same canvas.
C23_DisjointPlacementsCommute ==
    (pipeline = "canvas" /\ pc = "done" /\ DisjointRectangles(cv.A, cv.B)) =>
        (cv.ab.buf = cv.ba.buf /\ ~cv.ab.panic /\ ~cv.ba.panic)

\* two tiles side by side, both partly on the canvas, composited in both orders
C23_Witness ==
    /\ pipeline = "canvas" /\ pc = "done" /\ DisjointRectangles(cv.A, cv.B)
    /\ cv.first.writes # {} /\ cv.ab.writes # {}
    /\ cv.ab.buf # cv.first.buf /\ cv.first.buf # cv.buf
    /\ cv.ab.buf = cv.ba.buf

\* canvas pixel d lies in the destination rectangle of the placed tile t
InDestination(d, t, width) ==
    /\ t.xoff <= d % width /\ d % width < t.xoff + t.img.width
    /\ t.yoff <= d \div width /\ d \div width < t.yoff + t.img.height

\* C28: for any offsets, negative ones and ones beyond the canvas included,
\* compositing a tile touches only indices of the canvas, writes exactly the
\* canvas pixels that lie in the tile's destination rectangle, leaves every
\* other pixel as it was, and raises no error for the source pixels that fall
\* outside.
C28_CopyStaysInsideCanvas ==
    (pipeline = "canvas" /\ pc \in {"copied", "done"}) =>
        /\ ~cv.first.panic
        /\ cv.first.writes \subseteq 0 .. cv.width * cv.height - 1
        /\ DOMAIN cv.first.buf = DOMAIN cv.buf
        /\ \A d \in DOMAIN cv.buf :
               /\ d \in cv.first.writes <=> InDestination(d, cv.A, cv.width)
               /\ ~InDestination(d, cv.A, cv.width) => cv.first.buf[d] = cv.buf[d]

\* a tile hanging over the top left corner: some of its pixels were written,
\* the others dropped
C28_Witness ==
    /\ pipeline = "canvas" /\ pc = "copied"
    /\ cv.A.xoff < 0 /\ cv.A.yoff < 0
    /\ cv.first.writes # {}
    /\ Cardinality(cv.first.writes) < cv.A.img.width * cv.A.img.height
    /\ cv.first.buf # cv.buf

====
